---- MODULE Spec2Model ----
(***************************************************************************)
(* A model of the file-backed key-value store of                           *)
(* examples/oss-maintainer-workflow/src/storage/store.py: one document     *)
(* path shared by several processes, each with its own Store instance.     *)
(* The file system is modelled at the level of the system calls the code   *)
(* makes: exists, open (truncating), the single write that flushes the     *)
(* buffered serialization at close, rename, flock.                         *)
(***************************************************************************)
EXTENDS Naturals, Integers, Sequences, FiniteSets, TLC

\* ------------------------------------------------------------------ bounds

\* Number of processes using the same storage path.
NumProcs == 2
\* Number of calls the processes make in total after each has constructed
\* its Store; no process makes more than MaxOps of them.
MaxOps == 2

\* Length of the longest text of a queried file, in characters.
MaxText == 4

Procs == 1..NumProcs

\* ------------------------------------------------------------ value model

\* Keys of the document, in the order the serialization lists them.
KeyOrder == <<"counter", "user">>
Keys == {KeyOrder[i] : i \in 1..Len(KeyOrder)}

\* Field names: the shared counter field and one field per worker.
CounterField == "value"
WorkerFields == <<"worker_1", "worker_2", "worker_3", "worker_4">>
WorkerField(p) == WorkerFields[p]

\* A JSON value: a mapping from field names to numbers, a string, a number
\* (the return value of increment) or Python's None.
EmptyMap == [x \in {} |-> 0]
Dict(m) == [t |-> "dict", f |-> m]
StrVal == [t |-> "str", f |-> EmptyMap]
NoneVal == [t |-> "none", f |-> EmptyMap]
Num(n) == [t |-> "num", f |-> [x \in {"n"} |-> n]]
IsDict(v) == v.t = "dict"

MapSet(m, fld, n) == [x \in DOMAIN m \cup {fld} |-> IF x = fld THEN n ELSE m[x]]
MapGet(m, fld, dflt) == IF fld \in DOMAIN m THEN m[fld] ELSE dflt
\* dict.update(updates)
MapUpdate(m, u) == [x \in DOMAIN m \cup DOMAIN u |-> IF x \in DOMAIN u THEN u[x] ELSE m[x]]

\* A document: a mapping from a set of keys to values.
EmptyDoc == [x \in {} |-> NoneVal]
DocSet(D, k, v) == [x \in DOMAIN D \cup {k} |-> IF x = k THEN v ELSE D[x]]
DocPop(D, k) == [x \in DOMAIN D \ {k} |-> D[x]]
DocGet(D, k) == IF k \in DOMAIN D THEN D[k] ELSE NoneVal

\* --------------------------------------------------------- serialization

\* File content is a sequence of tokens: an opening brace, one token per
\* "key": value entry, a closing brace.
OpenTok == [tok |-> "open", k |-> "", v |-> NoneVal]
CloseTok == [tok |-> "close", k |-> "", v |-> NoneVal]
EntryTok(k, v) == [tok |-> "entry", k |-> k, v |-> v]
\* A complete JSON value that is not an object (a list, a string, a number,
\* true, false or null), as one token.
ScalarTok == [tok |-> "scalar", k |-> "", v |-> NoneVal]

\* json.dump(data, f, indent=2)
Ser(D) ==
  LET ks == SelectSeq(KeyOrder, LAMBDA k : k \in DOMAIN D)
  IN <<OpenTok>> \o [i \in 1..Len(ks) |-> EntryTok(ks[i], D[ks[i]])] \o <<CloseTok>>

\* json.load(f) succeeds on exactly one object followed by nothing.
ParseOk(b) ==
  /\ Len(b) >= 2
  /\ b[1].tok = "open"
  /\ b[Len(b)].tok = "close"
  /\ \A i \in 2..(Len(b) - 1) : b[i].tok = "entry"

ParseDoc(b) ==
  LET ents == 2..(Len(b) - 1)
      last(k) == CHOOSE i \in ents : b[i].k = k /\ \A j \in ents : b[j].k = k => j <= i
  IN [k \in {b[i].k : i \in ents} |-> b[last(k)].v]

\* ------------------------------------------------------------ file system

\* A path either names no file or names a file with some content.
NoFile == [exists |-> FALSE, bytes |-> <<>>]
File(b) == [exists |-> TRUE, bytes |-> b]

\* write(fd, new) at offset 0 of a file holding old: the bytes beyond the
\* written ones stay.
Overlay(old, new) ==
  IF Len(new) >= Len(old) THEN new ELSE new \o SubSeq(old, Len(new) + 1, Len(old))

\* -------------------------------------------------------------- operations

\* A call made by a process: Store(path), one of the five public methods,
\* or the caller-level sequence "modify the value last returned by get and
\* set() it" of tests/regression/test_issue_42.py.
Op(type, key, val, field, amount) ==
  [type |-> type, key |-> key, val |-> val, field |-> field, amount |-> amount]
NoOp == Op("none", "", NoneVal, "", 0)
ConstructOp == Op("construct", "", NoneVal, "", 0)
GetOp(k) == Op("get", k, NoneVal, "", 0)
SetOp(k, v) == Op("set", k, v, "", 0)
UpdateOp(k, m) == Op("update", k, Dict(m), "", 0)
DeleteOp(k) == Op("delete", k, NoneVal, "", 0)
IncrementOp(k, fld, n) == Op("increment", k, NoneVal, fld, n)
\* user = store.get(key) or {}; user[field] = 1; store.set(key, user)
ModFieldOp(k, fld) == Op("modfield", k, NoneVal, fld, 0)
\* counter = store.get(key); counter["value"] += 1; counter[field] = True;
\* store.set(key, counter)
ModBumpOp(k, fld) == Op("modbump", k, NoneVal, fld, 0)

Mutators == {"set", "update", "delete", "increment"}

Result(e, D, r) == [err |-> e, doc |-> D, ret |-> r]

\* Mutant: set writes a document holding only its own key.
SetBodyOnly(o, D) == Result("ok", DocSet(EmptyDoc, o.key, o.val), NoneVal)

\* The body of set between _read_all and _write_all.
SetBody(o, D) == Result("ok", DocSet(D, o.key, o.val), NoneVal)

\* Mutant: update replaces the record instead of merging into it.
UpdateBodyReplace(o, D) == Result("ok", DocSet(D, o.key, o.val), NoneVal)

\* Mutant: update merges the other way round, keeping the fields the record
\* already has.
UpdateBodyKeepOld(o, D) ==
  IF o.key \in DOMAIN D /\ IsDict(D[o.key])
  THEN Result("ok", DocSet(D, o.key, Dict(MapUpdate(o.val.f, D[o.key].f))), NoneVal)
  ELSE Result("ok", DocSet(D, o.key, o.val), NoneVal)

\* The body of update.
UpdateBody(o, D) ==
  IF o.key \in DOMAIN D /\ IsDict(D[o.key])
  THEN Result("ok", DocSet(D, o.key, Dict(MapUpdate(D[o.key].f, o.val.f))), NoneVal)
  ELSE Result("ok", DocSet(D, o.key, o.val), NoneVal)

\* Mutant: delete uses del data[key], which raises on an absent key.
DeleteBodyStrict(o, D) ==
  IF o.key \in DOMAIN D THEN Result("ok", DocPop(D, o.key), NoneVal)
  ELSE Result("KeyError", D, NoneVal)

\* The body of delete.
DeleteBody(o, D) == Result("ok", DocPop(D, o.key), NoneVal)

\* Mutant: increment stores the amount instead of adding it.
IncrementBodyOverwrite(o, D) ==
  LET D1 == IF o.key \notin DOMAIN D THEN DocSet(D, o.key, Dict(EmptyMap)) ELSE D
  IN IF ~IsDict(D1[o.key])
     THEN Result("ValueError", D, NoneVal)
     ELSE Result("ok", DocSet(D1, o.key, Dict(MapSet(D1[o.key].f, o.field, o.amount))),
                 Num(o.amount))

\* Mutant: increment replaces a non-mapping value by an empty mapping
\* instead of raising.
IncrementBodyNoGuard(o, D) ==
  LET D1 == IF o.key \notin DOMAIN D \/ ~IsDict(D[o.key])
            THEN DocSet(D, o.key, Dict(EmptyMap)) ELSE D
      n == MapGet(D1[o.key].f, o.field, 0) + o.amount
  IN Result("ok", DocSet(D1, o.key, Dict(MapSet(D1[o.key].f, o.field, n))), Num(n))

\* The body of increment.
IncrementBody(o, D) ==
  LET D1 == IF o.key \notin DOMAIN D THEN DocSet(D, o.key, Dict(EmptyMap)) ELSE D
  IN IF ~IsDict(D1[o.key])
     THEN Result("ValueError", D, NoneVal)
     ELSE LET n == MapGet(D1[o.key].f, o.field, 0) + o.amount
          IN Result("ok", DocSet(D1, o.key, Dict(MapSet(D1[o.key].f, o.field, n))), Num(n))

\* What a mutator computes from the document it read.
Mutate(o, D) ==
  CASE o.type = "set" -> SetBody(o, D)
    [] o.type = "update" -> UpdateBody(o, D)
    [] o.type = "delete" -> DeleteBody(o, D)
    [] o.type = "increment" -> IncrementBody(o, D)

\* Mutant: _read_all treats a file that does not parse as the empty
\* document.
ReadAllLenient(file) ==
  IF file.exists /\ ParseOk(file.bytes) THEN Result("ok", ParseDoc(file.bytes), NoneVal)
  ELSE Result("ok", EmptyDoc, NoneVal)

\* _read_all: a missing file reads as the empty document; json.load raises
\* on content that is not one complete JSON value. A complete value that
\* is not a mapping is returned by json.load, and the first use the calling
\* method makes of it (data.get, data[key] = ..., key in data, data.pop)
\* raises TypeError or AttributeError before anything is written; the two
\* are one error kind here.
ReadAll(file) ==
  IF ~file.exists THEN Result("ok", EmptyDoc, NoneVal)
  ELSE IF ParseOk(file.bytes) THEN Result("ok", ParseDoc(file.bytes), NoneVal)
  ELSE IF file.bytes = <<ScalarTok>> THEN Result("TypeError", EmptyDoc, NoneVal)
  ELSE Result("JSONDecodeError", EmptyDoc, NoneVal)

\* The caller's code between get and set in the regression tests, applied
\* to the value v that get returned.
CallerModify(o, v) ==
  CASE o.type = "modfield" ->
         IF v.t = "none" \/ (IsDict(v) /\ DOMAIN v.f = {})
         THEN Result("ok", EmptyDoc, Dict(MapSet(EmptyMap, o.field, 1)))
         ELSE IF IsDict(v) THEN Result("ok", EmptyDoc, Dict(MapSet(v.f, o.field, 1)))
         ELSE Result("TypeError", EmptyDoc, NoneVal)
    [] o.type = "modbump" ->
         IF IsDict(v) /\ CounterField \in DOMAIN v.f
         THEN Result("ok", EmptyDoc,
                Dict(MapSet(MapSet(v.f, CounterField, v.f[CounterField] + 1), o.field, 1)))
         ELSE Result("TypeError", EmptyDoc, NoneVal)

\* ------------------------------------------------------------------ state

VARIABLES
  docFile,      \* the file under storage_path
  tmpFile,      \* the file under storage_path.with_suffix('.tmp')
  fdAt,         \* per process: where the inode of its open temp-file handle is
  lockHolders,  \* the processes holding a flock on the lock file
  lockFd,       \* per process: its _FileLock.lock_file handle is open
  pc,           \* per process: its position in the code
  op,           \* per process: the call in progress
  prog,         \* per process: the calls still to make, a sequence of menus
  budget,       \* the number of calls the processes may still start
  data,         \* per process: the document handed to _write_all
  ret,          \* per process: the caller's variable holding the last value
                \* returned by get or increment
  err,          \* per process: how its last call ended
  absDoc,       \* the document a one-at-a-time execution of the mutators
                \* that have returned yields (one that raised commits nothing)
  initial,      \* the document file before any process started
  before,       \* per process: the document file its mutator read inside the
                \* lock, until the lock is released
  crash         \* the last abnormal termination of a lock holder: the document
                \* file before and after the call it was in, and whether no
                \* mutator has read the document since

\* Two stores on two different storage paths in one directory.
VARIABLES
  storagePath,  \* per store: Store.storage_path
  files,        \* the directory: what each path names
  handle,       \* per store: the path at which the inode of its open temp
                \* handle is
  flocked,      \* the stores holding a flock
  step,         \* per store: its position in the code
  call,         \* per store: the call whose _write_all is running
  failure       \* per store: the exception its last call raised

isoVars == <<storagePath, files, handle, flocked, step, call, failure>>

\* One call of execute_query.
VARIABLES
  qfile,        \* the file under filename: missing, or its text
  qpattern,     \* the pattern
  qrest,        \* the text the loop over the file has not yet read
  qresults,     \* results
  qpc           \* the position in the code

queryVars == <<qfile, qpattern, qrest, qresults, qpc>>

storeVars == <<docFile, tmpFile, fdAt, lockHolders, lockFd, pc, op, prog, budget, data, ret,
               err, absDoc, initial, before, crash>>

vars == <<storeVars, isoVars, queryVars>>

\* Positions at which a process has no call in progress.
Resting == {"new", "failed", "idle"}
\* Positions inside _write_all.
Writing == {"w_open", "w_flush", "w_replace"}
\* Positions between _FileLock.__enter__ returning and __exit__.
Critical == {"read", "exit"} \cup Writing

InCritical(p) == pc[p] \in Critical /\ op[p].type \in Mutators
InMutator(p) == pc[p] = "lock_wait" \/ InCritical(p)

\* ------------------------------------------------------------------- init

\* No call has terminated abnormally.
NoCrash == [fresh |-> FALSE, pre |-> NoFile, post |-> NoFile]

\* No store on a second path is in use, and no query is running.
IsoOff ==
  /\ storagePath = <<>> /\ files = <<>> /\ handle = <<>> /\ flocked = {}
  /\ step = <<>> /\ call = <<>> /\ failure = <<>>
QueryOff ==
  /\ qfile = [exists |-> FALSE, text |-> <<>>] /\ qpattern = <<>> /\ qrest = <<>>
  /\ qresults = <<>> /\ qpc = "off"

\* The processes on the shared storage path.
StoreInit(file, programs, calls) ==
  /\ docFile = file
  /\ tmpFile = NoFile
  /\ fdAt = [p \in Procs |-> "none"]
  /\ lockHolders = {}
  /\ lockFd = [p \in Procs |-> FALSE]
  /\ pc = [p \in Procs |-> "new"]
  /\ op = [p \in Procs |-> NoOp]
  /\ prog = programs
  /\ budget = calls
  /\ data = [p \in Procs |-> EmptyDoc]
  /\ ret = [p \in Procs |-> NoneVal]
  /\ err = [p \in Procs |-> "ok"]
  /\ absDoc = IF file.exists /\ ParseOk(file.bytes) THEN ParseDoc(file.bytes) ELSE EmptyDoc
  /\ initial = file
  /\ before = [p \in Procs |-> NoFile]
  /\ crash = NoCrash

InitWith(file, programs, calls) ==
  StoreInit(file, programs, calls) /\ IsoOff /\ QueryOff

\* ---------------------------------------------------------------- actions

\* A process starts its next call: the first one, Store(path), is free; the
\* later ones are counted against the budget.
CanStart(p) == prog[p] # <<>> /\ (pc[p] = "new" \/ budget > 0)
Started(p) ==
  /\ prog' = [prog EXCEPT ![p] = Tail(@)]
  /\ budget' = IF pc[p] = "new" THEN budget ELSE budget - 1

\* Mutant: the constructor writes the empty document unconditionally.
NeedsInitAlways(file) == TRUE

\* Store.__init__, line 21: the constructor writes only when no file exists.
NeedsInit(file) == ~file.exists

\* Store.__init__: the existence check, and the call of _write_all({}).
Construct(p) ==
  /\ pc[p] \in Resting
  /\ CanStart(p)
  /\ ConstructOp \in Head(prog[p])
  /\ Started(p)
  /\ IF NeedsInit(docFile)
     THEN /\ pc' = [pc EXCEPT ![p] = "w_open"]
          /\ op' = [op EXCEPT ![p] = ConstructOp]
          /\ data' = [data EXCEPT ![p] = EmptyDoc]
          /\ err' = err
     ELSE /\ pc' = [pc EXCEPT ![p] = "idle"]
          /\ err' = [err EXCEPT ![p] = "ok"]
          /\ UNCHANGED <<op, data>>
  /\ UNCHANGED <<docFile, tmpFile, fdAt, lockHolders, lockFd, ret, absDoc, initial, before, crash, isoVars, queryVars>>

\* What get(k) returns when it reads this file: data.get(key), or None for
\* the caller's variable when _read_all raises.
GetValue(file, k) == DocGet(ReadAll(file).doc, k)

\* Store.get: _read_all without the lock, then data.get(key).
Get(p) ==
  /\ pc[p] = "idle"
  /\ CanStart(p)
  /\ \E o \in Head(prog[p]) :
       /\ o.type = "get"
       /\ LET r == ReadAll(docFile)
          IN /\ err' = [err EXCEPT ![p] = r.err]
             /\ ret' = [ret EXCEPT ![p] = IF r.err = "ok" THEN GetValue(docFile, o.key) ELSE @]
  /\ Started(p)
  /\ UNCHANGED <<docFile, tmpFile, fdAt, lockHolders, lockFd, pc, op, data, absDoc, initial, before, crash, isoVars, queryVars>>

\* The set() call a caller-level modify-and-set sequence ends in.
AsMutator(o, v) == IF o.type \in Mutators THEN o ELSE SetOp(o.key, CallerModify(o, v).ret)

\* A mutator up to _FileLock.__enter__ line 121: the lock file is opened.
Enter(p) ==
  /\ pc[p] = "idle"
  /\ CanStart(p)
  /\ \E o \in Head(prog[p]) :
       /\ o.type \in Mutators \cup {"modfield", "modbump"}
       /\ IF o.type \notin Mutators /\ CallerModify(o, ret[p]).err # "ok"
          THEN /\ err' = [err EXCEPT ![p] = CallerModify(o, ret[p]).err]
               /\ UNCHANGED <<pc, op, lockFd>>
          ELSE /\ pc' = [pc EXCEPT ![p] = "lock_wait"]
               /\ op' = [op EXCEPT ![p] = AsMutator(o, ret[p])]
               /\ lockFd' = [lockFd EXCEPT ![p] = TRUE]
               /\ err' = err
  /\ Started(p)
  /\ UNCHANGED <<docFile, tmpFile, fdAt, lockHolders, data, ret, absDoc, initial, before, crash, isoVars, queryVars>>

\* Mutant: the lock is requested shared (LOCK_SH), which never excludes.
CanFlockShared(holders, p) == TRUE

\* fcntl.flock(fd, LOCK_EX) returns when no other open file description
\* holds a lock on the lock file.
CanFlock(holders, p) == holders \ {p} = {}

\* _FileLock.__enter__ line 122.
Acquire(p) ==
  /\ pc[p] = "lock_wait"
  /\ CanFlock(lockHolders, p)
  /\ lockHolders' = lockHolders \cup {p}
  /\ pc' = [pc EXCEPT ![p] = "read"]
  /\ UNCHANGED <<docFile, tmpFile, fdAt, lockFd, op, prog, budget, data, ret, err, absDoc, initial, before, crash, isoVars, queryVars>>

\* Inside the lock: _read_all and the in-memory change, up to the call of
\* _write_all or to the exception that leaves the with block.
ReadModify(p) ==
  /\ pc[p] = "read"
  /\ LET r == ReadAll(docFile)
         m == Mutate(op[p], r.doc)
     IN IF r.err # "ok"
        THEN /\ err' = [err EXCEPT ![p] = r.err]
             /\ pc' = [pc EXCEPT ![p] = "exit"]
             /\ data' = data
        ELSE IF m.err # "ok"
        THEN /\ err' = [err EXCEPT ![p] = m.err]
             /\ pc' = [pc EXCEPT ![p] = "exit"]
             /\ data' = data
        ELSE /\ data' = [data EXCEPT ![p] = m.doc]
             /\ pc' = [pc EXCEPT ![p] = "w_open"]
             /\ err' = err
  /\ before' = [before EXCEPT ![p] = docFile]
  /\ crash' = [crash EXCEPT !.fresh = FALSE]
  /\ UNCHANGED <<docFile, tmpFile, fdAt, lockHolders, lockFd, op, prog, budget, ret, absDoc, initial,
                 isoVars, queryVars>>

\* _write_all line 96: open(temp_path, 'w') creates the temp file or
\* truncates the one that is there.
WriteOpen(p) ==
  /\ pc[p] = "w_open"
  /\ tmpFile' = File(<<>>)
  /\ fdAt' = [fdAt EXCEPT ![p] = "tmp"]
  /\ pc' = [pc EXCEPT ![p] = "w_flush"]
  /\ UNCHANGED <<docFile, lockHolders, lockFd, op, prog, budget, data, ret, err, absDoc, initial, before, crash, isoVars, queryVars>>

\* _write_all line 97 and the end of the with block: the serialization is
\* buffered and reaches the inode of the handle in one write at close.
WriteFlush(p) ==
  /\ pc[p] = "w_flush"
  /\ tmpFile' = IF fdAt[p] = "tmp" THEN File(Overlay(tmpFile.bytes, Ser(data[p]))) ELSE tmpFile
  /\ docFile' = IF fdAt[p] = "doc" THEN File(Overlay(docFile.bytes, Ser(data[p]))) ELSE docFile
  /\ fdAt' = [fdAt EXCEPT ![p] = "none"]
  /\ pc' = [pc EXCEPT ![p] = "w_replace"]
  /\ UNCHANGED <<lockHolders, lockFd, op, prog, budget, data, ret, err, absDoc, initial, before, crash, isoVars, queryVars>>

\* Where an open handle's inode is after rename(tmp, doc).
AfterRename(at) == IF at = "tmp" THEN "doc" ELSE IF at = "doc" THEN "orphan" ELSE at

\* Mutant: increment returns the value the field had before the addition.
ReturnedPrevious(o, D, old) ==
  IF o.type = "increment" THEN Num(D[o.key].f[o.field] - o.amount) ELSE old

\* return data[key][field] of increment; the other mutators return nothing
\* the caller keeps.
Returned(o, D, old) == IF o.type = "increment" THEN Num(D[o.key].f[o.field]) ELSE old

\* _write_all line 98: temp_path.replace(storage_path), which raises
\* FileNotFoundError when the temp file is gone.
WriteReplace(p) ==
  /\ pc[p] = "w_replace"
  /\ IF tmpFile.exists
     THEN /\ docFile' = tmpFile
          /\ tmpFile' = NoFile
          /\ fdAt' = [q \in Procs |-> AfterRename(fdAt[q])]
          /\ err' = [err EXCEPT ![p] = "ok"]
          /\ ret' = [ret EXCEPT ![p] = Returned(op[p], data[p], @)]
          /\ IF op[p].type = "construct"
             THEN pc' = [pc EXCEPT ![p] = "idle"] /\ op' = [op EXCEPT ![p] = NoOp]
             ELSE pc' = [pc EXCEPT ![p] = "exit"] /\ op' = op
     ELSE /\ err' = [err EXCEPT ![p] = "FileNotFoundError"]
          /\ IF op[p].type = "construct"
             THEN pc' = [pc EXCEPT ![p] = "failed"] /\ op' = [op EXCEPT ![p] = NoOp]
             ELSE pc' = [pc EXCEPT ![p] = "exit"] /\ op' = op
          /\ UNCHANGED <<docFile, tmpFile, fdAt, ret>>
  /\ UNCHANGED <<lockHolders, lockFd, prog, budget, data, absDoc, initial, before, crash, isoVars, queryVars>>

\* Mutant: the lock is only released when the block returns normally.
ReleasedOnSuccess(holders, p) == IF err[p] = "ok" THEN holders \ {p} ELSE holders

\* _FileLock.__exit__: flock(LOCK_UN) and close, on return and on exception.
Released(holders, p) == holders \ {p}

Exit(p) ==
  /\ pc[p] = "exit"
  /\ lockHolders' = Released(lockHolders, p)
  /\ lockFd' = [lockFd EXCEPT ![p] = FALSE]
  /\ pc' = [pc EXCEPT ![p] = "idle"]
  /\ absDoc' = IF err[p] = "ok" THEN Mutate(op[p], absDoc).doc ELSE absDoc
  /\ op' = [op EXCEPT ![p] = NoOp]
  /\ before' = [before EXCEPT ![p] = NoFile]
  /\ UNCHANGED <<docFile, tmpFile, fdAt, prog, budget, data, ret, err, initial, crash,
                 isoVars, queryVars>>

Next ==
  \E p \in Procs :
    \/ Construct(p)
    \/ Get(p)
    \/ Enter(p)
    \/ Acquire(p)
    \/ ReadModify(p)
    \/ WriteOpen(p)
    \/ WriteFlush(p)
    \/ WriteReplace(p)
    \/ Exit(p)

\* ------------------------------------------------------ the general system

\* The calls a process may make after constructing its Store, all on one
\* key; the other key is only ever part of the initial document.
MenuKey == "counter"
Menu(p) ==
  { ConstructOp,
    GetOp(MenuKey),
    DeleteOp(MenuKey),
    SetOp(MenuKey, StrVal),
    SetOp(MenuKey, Dict(MapSet(EmptyMap, WorkerField(p), 1))),
    UpdateOp(MenuKey, MapSet(EmptyMap, WorkerField(p), 1)),
    IncrementOp(MenuKey, CounterField, 1) }

Program(p) == <<{ConstructOp}>> \o [i \in 1..MaxOps |-> Menu(p)]

\* The document file a run starts from: none, an empty (truncated) file
\* that does not parse, or a document the store wrote earlier.
InitDocs ==
  { EmptyDoc,
    DocSet(EmptyDoc, "counter", Dict(MapSet(EmptyMap, CounterField, 0))),
    DocSet(DocSet(EmptyDoc, "counter", StrVal), "user", StrVal) }
InitFiles == {NoFile, File(<<>>)} \cup {File(Ser(D)) : D \in InitDocs}

Init == \E file \in InitFiles : InitWith(file, [p \in Procs |-> Program(p)], MaxOps)

Spec == Init /\ [][Next]_vars

\* ---------------------------------------------------------------- helpers

\* The run started from a document file the store had written.
InitialOk == initial.exists /\ ParseOk(initial.bytes)
\* The run started from no file or from a well-formed one.
InitialSound == ~initial.exists \/ ParseOk(initial.bytes)
\* Process p has made all its calls.
Finished(p) == pc[p] \in Resting /\ (prog[p] = <<>> \/ budget = 0)
\* No process is between the start of a write and the end of its call.
NoWriteInProgress == \A p \in Procs : pc[p] \notin Writing \cup {"exit"}

\* ------------------------------------------------------------------ C1

\* C1: mutual exclusion. In every reachable state at most one process is
\* between the return of _FileLock.__enter__ and __exit__ of a set, update,
\* delete or increment on the shared lock path.
MutualExclusion == Cardinality({p \in Procs : InCritical(p)}) <= 1

\* One process is inside the critical section while another one is blocked
\* in flock.
MutualExclusionWitness ==
  \E p, q \in Procs : p # q /\ InCritical(p) /\ pc[p] = "w_flush" /\ pc[q] = "lock_wait"

\* ------------------------------------------------------------------ C2

\* C2: linearizability of the mutators. Started from an initialized
\* document, whenever no write is in progress the document file is the
\* serialization of the document obtained by applying the completed
\* mutators one at a time in the order they held the lock; in particular
\* this is the document a mutator that has just acquired the lock reads, and
\* the document left when all calls have completed.
Linearizable ==
  (InitialOk /\ NoWriteInProgress) => docFile = File(Ser(absDoc))

\* All calls have completed and the record holds a field written by each of
\* two processes, so two mutators of different processes took effect.
LinearizableWitness ==
  /\ InitialOk
  /\ \A p \in Procs : Finished(p)
  /\ MenuKey \in DOMAIN absDoc
  /\ IsDict(absDoc[MenuKey])
  /\ {WorkerField(1), WorkerField(2)} \subseteq DOMAIN absDoc[MenuKey].f
  /\ docFile = File(Ser(absDoc))

\* ------------------------------------------------------------------ C3

\* The record every worker field of which is n.
WorkerRecord(n) == Dict([f \in {WorkerField(p) : p \in Procs} |-> n])

\* Each process constructs its Store, calls update("user", {its field: 1})
\* and then reads the record back.
UpdateProgram(p) ==
  << {ConstructOp},
     {UpdateOp("user", MapSet(EmptyMap, WorkerField(p), 1))},
     {GetOp("user")} >>

\* The record the updates start from: a mapping, with or without the
\* fields the processes are going to update.
UpdateInitDocs ==
  { DocSet(EmptyDoc, "user", Dict(EmptyMap)),
    DocSet(EmptyDoc, "user", WorkerRecord(0)),
    DocSet(DocSet(EmptyDoc, "counter", StrVal), "user",
           Dict(MapSet(EmptyMap, CounterField, 0))) }

InitUpdate ==
  \E D \in UpdateInitDocs :
    InitWith(File(Ser(D)), [p \in Procs |-> UpdateProgram(p)], 2 * NumProcs)

SpecUpdate == InitUpdate /\ [][Next]_vars

\* Process p's update call has returned.
UpdateDone(p) == pc[p] = "idle" /\ Len(prog[p]) <= 1

\* C3: no lost update for update(). When the processes concurrently update
\* disjoint fields of the same key whose value is a mapping, then from the
\* moment a process's update has returned the record holds its field, and
\* when all have returned the record is the initial record with every
\* process's field set.
NoLostUpdate ==
  /\ \A p \in Procs :
       UpdateDone(p) =>
         /\ IsDict(GetValue(docFile, "user"))
         /\ MapGet(GetValue(docFile, "user").f, WorkerField(p), 0) = 1
  /\ (\A p \in Procs : UpdateDone(p)) =>
       docFile = File(Ser(DocSet(ParseDoc(initial.bytes), "user",
                   Dict(MapUpdate(ParseDoc(initial.bytes)["user"].f, WorkerRecord(1).f)))))

\* All updates and read-backs have returned; the record kept the field it
\* had before, and one process read the record back when it held its own
\* field and not yet another process's, so the calls overlapped.
NoLostUpdateWitness ==
  /\ \A p \in Procs : UpdateDone(p) /\ prog[p] = <<>>
  /\ CounterField \in DOMAIN GetValue(docFile, "user").f
  /\ \E p, q \in Procs :
       /\ IsDict(ret[p])
       /\ WorkerField(p) \in DOMAIN ret[p].f
       /\ WorkerField(q) \notin DOMAIN ret[p].f

\* ------------------------------------------------------------------ C4

\* test_concurrent_writes_both_persist: each worker reads the record,
\* changes its own field and sets the record.
RmwFieldProgram(p) ==
  <<{ConstructOp}, {GetOp("user")}, {ModFieldOp("user", WorkerField(p))}>>

\* test_concurrent_writes_stress: each worker repeats MaxOps times "read
\* the counter record, add 1 to value, set its marker, set the record".
RmwRound(p) == <<{GetOp("counter")}, {ModBumpOp("counter", WorkerField(p))}>>
RECURSIVE Rounds(_, _)
Rounds(p, n) == IF n = 0 THEN <<>> ELSE RmwRound(p) \o Rounds(p, n - 1)
RmwBumpProgram(p) == <<{ConstructOp}>> \o Rounds(p, MaxOps)

InitRmw ==
  \/ InitWith(File(Ser(DocSet(EmptyDoc, "user", WorkerRecord(0)))),
              [p \in Procs |-> RmwFieldProgram(p)], 2 * NumProcs)
  \/ InitWith(File(Ser(DocSet(EmptyDoc, "counter", Dict(MapSet(EmptyMap, CounterField, 0))))),
              [p \in Procs |-> RmwBumpProgram(p)], 2 * MaxOps * NumProcs)

SpecRmw == InitRmw /\ [][Next]_vars

\* C4: no lost update for the caller-level get-modify-set sequence. After
\* all workers have finished, the record reflects every worker's change:
\* every field holds its new value; the counter is NumProcs * MaxOps and
\* every worker's marker is present.
CallerSequenceKeepsAll ==
  (\A p \in Procs : pc[p] = "idle" /\ prog[p] = <<>>) =>
     IF "user" \in DOMAIN ParseDoc(initial.bytes)
     THEN GetValue(docFile, "user") = WorkerRecord(1)
     ELSE /\ IsDict(GetValue(docFile, "counter"))
          /\ MapGet(GetValue(docFile, "counter").f, CounterField, 0) = NumProcs * MaxOps
          /\ \A p \in Procs : WorkerField(p) \in DOMAIN GetValue(docFile, "counter").f

\* ------------------------------------------------------------------ C5

\* Each process constructs its Store, calls increment("counter", "value")
\* MaxOps times and then reads the record.
RECURSIVE Increments(_)
Increments(n) ==
  IF n = 0 THEN <<>> ELSE <<{IncrementOp("counter", CounterField, 1)}>> \o Increments(n - 1)
IncrementProgram(p) == <<{ConstructOp}>> \o Increments(MaxOps) \o <<{GetOp("counter")}>>

\* The field starts at 0 or absent; the key may be absent as well.
IncrementInitDocs ==
  { DocSet(EmptyDoc, "counter", Dict(MapSet(EmptyMap, CounterField, 0))),
    DocSet(EmptyDoc, "counter", Dict(EmptyMap)),
    DocSet(EmptyDoc, "user", StrVal) }

InitIncrement ==
  \E D \in IncrementInitDocs :
    InitWith(File(Ser(D)), [p \in Procs |-> IncrementProgram(p)], (MaxOps + 1) * NumProcs)

SpecIncrement == InitIncrement /\ [][Next]_vars

\* The number of increment calls process p has still to start.
PendingIncrements(p) == Cardinality({i \in 1..Len(prog[p]) : GetOp("counter") \notin prog[p][i]})

\* C5: no dropped increment. When every process has made its MaxOps
\* increment calls, the field is exactly NumProcs * MaxOps.
NoDroppedIncrement ==
  (\A p \in Procs : pc[p] = "idle" /\ PendingIncrements(p) = 0) =>
     /\ IsDict(GetValue(docFile, "counter"))
     /\ MapGet(GetValue(docFile, "counter").f, CounterField, 0) = NumProcs * MaxOps

\* All increments are done; one process has read the final value and
\* another one read the counter before the last increment.
NoDroppedIncrementWitness ==
  /\ \A p \in Procs : pc[p] = "idle" /\ prog[p] = <<>>
  /\ \E p \in Procs : ret[p] = Dict(MapSet(EmptyMap, CounterField, NumProcs * MaxOps))
  /\ \E p \in Procs : ret[p] # Dict(MapSet(EmptyMap, CounterField, NumProcs * MaxOps))

\* ------------------------------------------------------------------ C6

\* C6: no torn document. Started from no file or from a well-formed one,
\* the content under the document path is always the complete
\* serialization of a mapping, under any interleaving of constructors,
\* mutators and readers.
NoTornDocument == (InitialSound /\ docFile.exists) => ParseOk(docFile.bytes)

\* ------------------------------------------------------------------ C7

\* No constructor is inside its _write_all.
NoConstructorWriting == \A p \in Procs : ~(op[p].type = "construct" /\ pc[p] \in Writing)

\* C7: concurrency-safe initialization. Once the constructors that ran
\* concurrently with the mutators have finished and no mutator is writing,
\* every key the completed mutators left in the document is in the file
\* with its value.
ConstructorKeepsDocument ==
  (InitialSound /\ NoConstructorWriting /\ NoWriteInProgress) =>
     \A k \in DOMAIN absDoc : ReadAll(docFile).err = "ok" /\ GetValue(docFile, k) = absDoc[k]

\* ------------------------------------------------------------------ C8

\* No other process than p has started: p runs sequentially.
Alone(p) == \A q \in Procs \ {p} : pc[q] = "new" /\ Len(prog[q]) = MaxOps + 1

\* C8: idempotent initialization, sequentially. While one process alone
\* constructs Stores on the path (any number of times, between its other
\* calls), the file holds the document its mutators produced from the
\* initial one: a construction on an existing file changes nothing, and a
\* construction on a missing file leaves the serialization of the empty
\* mapping, on which get returns None for every key.
IdempotentInit ==
  \A p \in Procs :
    (Alone(p) /\ pc[p] = "idle" /\ InitialSound) =>
       /\ docFile = File(Ser(absDoc))
       /\ (~initial.exists /\ budget = MaxOps) =>
            /\ docFile = File(Ser(EmptyDoc))
            /\ \A k \in Keys : ReadAll(docFile).err = "ok" /\ GetValue(docFile, k) = NoneVal

\* A process alone has constructed a Store on a populated path, changed
\* the document and constructed Stores again until its calls ran out.
IdempotentInitWitness ==
  \E p \in Procs :
    /\ Alone(p) /\ pc[p] = "idle" /\ budget = 0
    /\ initial.exists /\ InitialSound
    /\ absDoc # ParseDoc(initial.bytes)
    /\ DOMAIN absDoc = Keys
    /\ docFile = File(Ser(absDoc))

\* ------------------------------------------------------------------ C9

\* C9: guaranteed release. A process that is not inside a mutator holds no
\* lock and has no open lock-file handle, however its last mutator ended;
\* so the lock is free whenever no mutator is in progress.
LockReleased ==
  /\ \A p \in Procs : ~InMutator(p) => (p \notin lockHolders /\ ~lockFd[p])
  /\ (\A p \in Procs : ~InMutator(p)) => lockHolders = {}

\* A mutator has ended by the FileNotFoundError of _write_all's rename, and
\* the lock is free.
LockReleasedWitness ==
  \E p \in Procs :
    pc[p] = "idle" /\ err[p] = "FileNotFoundError" /\ lockHolders = {} /\ ~lockFd[p]

\* ----------------------------------------------------------------- C10

\* Process p is about to run the body of increment on a document whose
\* value at the key is not a mapping.
IncrementOnNonMapping(p) ==
  /\ pc[p] = "read"
  /\ op[p].type = "increment"
  /\ ReadAll(docFile).err = "ok"
  /\ op[p].key \in DOMAIN ReadAll(docFile).doc
  /\ ~IsDict(ReadAll(docFile).doc[op[p].key])

\* C10: type guard on increment. An increment that finds a non-mapping at
\* its key raises ValueError and goes straight to the release of the lock;
\* neither that step nor the release changes the document file or the temp
\* file, so the call writes nothing.
IncrementTypeGuard ==
  [][\A p \in Procs :
       /\ (IncrementOnNonMapping(p) /\ pc'[p] # pc[p]) =>
            /\ pc'[p] = "exit"
            /\ err'[p] = "ValueError"
            /\ docFile' = docFile /\ tmpFile' = tmpFile /\ fdAt'[p] = "none"
       /\ (pc[p] = "exit" /\ err[p] = "ValueError" /\ pc'[p] # pc[p]) =>
            /\ pc'[p] = "idle"
            /\ err'[p] = "ValueError"
            /\ docFile' = docFile /\ tmpFile' = tmpFile]_vars

\* An increment on a string value has raised ValueError and returned to
\* its caller, and the file still holds the string.
IncrementTypeGuardWitness ==
  \E p \in Procs :
    /\ pc[p] = "idle" /\ err[p] = "ValueError"
    /\ GetValue(docFile, MenuKey) = StrVal

\* ----------------------------------------------------------------- C11

\* C11: all-or-nothing mutation. A mutator whose _write_all raised (its
\* rename failed) has had no effect on the document: the document it was
\* writing is not what the document path holds, unless the path held those
\* very bytes when the mutator read it.
AllOrNothing ==
  \A p \in Procs :
    (InCritical(p) /\ pc[p] = "exit" /\ err[p] = "FileNotFoundError"
       /\ docFile = File(Ser(data[p])))
      => docFile = before[p]

\* ------------------------------------------------- one call on any document

\* The calls of the public interface on both keys: the partial mappings of
\* update name a field the records have, a field they lack, or nothing.
CallPartials ==
  { EmptyMap,
    MapSet(EmptyMap, CounterField, 1),
    MapSet(MapSet(EmptyMap, CounterField, 1), WorkerField(2), 1) }
CallMenu ==
  UNION { {GetOp(k), DeleteOp(k), SetOp(k, StrVal), IncrementOp(k, CounterField, 1)}
            \cup {UpdateOp(k, m) : m \in CallPartials} : k \in Keys }

\* Documents in which a key is absent, holds a mapping or holds a string.
CallDocs ==
  { EmptyDoc,
    DocSet(EmptyDoc, "counter", Dict(MapSet(MapSet(EmptyMap, CounterField, 0), WorkerField(1), 0))),
    DocSet(DocSet(EmptyDoc, "counter", StrVal), "user", Dict(MapSet(EmptyMap, CounterField, 0))),
    DocSet(DocSet(EmptyDoc, "counter", Dict(EmptyMap)), "user", StrVal) }

\* Files that do not hold one complete object: an empty file, a document
\* followed by the tail of a longer one, and a JSON value that is no object.
CorruptFiles == {File(<<>>), File(<<OpenTok, CloseTok, CloseTok>>), File(<<ScalarTok>>)}
CallFiles == {File(Ser(D)) : D \in CallDocs} \cup CorruptFiles

\* Every process constructs its Store on an existing file, then one of them
\* makes one call.
InitCall ==
  \E file \in CallFiles :
    InitWith(file, [p \in Procs |-> <<{ConstructOp}, CallMenu>>], 1)
SpecCall == InitCall /\ [][Next]_vars

\* Process p is at the end of the with block of the given mutator, having
\* read a complete document.
AtEndOf(p, type) ==
  /\ pc[p] = "exit" /\ op[p].type = type
  /\ before[p].exists /\ ParseOk(before[p].bytes)

\* ----------------------------------------------------------------- C12

\* C12: merge semantics of update. When update(key, partial) finds a
\* mapping at the key, the value it leaves has the fields of both, those
\* named in partial with partial's value and the others as they were; when
\* the key is absent or holds a non-mapping, the value it leaves is partial.
MergeSemantics ==
  \A p \in Procs :
    AtEndOf(p, "update") =>
      LET D == ParseDoc(before[p].bytes)
          k == op[p].key
          partial == op[p].val.f
      IN /\ err[p] = "ok"
         /\ ParseOk(docFile.bytes)
         /\ k \in DOMAIN ParseDoc(docFile.bytes)
         /\ LET v == ParseDoc(docFile.bytes)[k]
            IN IF k \in DOMAIN D /\ D[k].t = "dict"
               THEN /\ v.t = "dict"
                    /\ DOMAIN v.f = DOMAIN D[k].f \cup DOMAIN partial
                    /\ \A fld \in DOMAIN v.f :
                         v.f[fld] = IF fld \in DOMAIN partial THEN partial[fld]
                                    ELSE D[k].f[fld]
               ELSE v = [t |-> "dict", f |-> partial]

\* An update has overwritten a field of an existing mapping with another
\* number and kept a field its partial does not name.
MergeSemanticsWitness ==
  \E p \in Procs :
    /\ AtEndOf(p, "update") /\ err[p] = "ok"
    /\ LET D == ParseDoc(before[p].bytes)
           k == op[p].key
       IN /\ k \in DOMAIN D /\ IsDict(D[k])
          /\ \E fld \in DOMAIN D[k].f \cap DOMAIN op[p].val.f :
               D[k].f[fld] # op[p].val.f[fld]
          /\ DOMAIN D[k].f \ DOMAIN op[p].val.f # {}
          /\ DOMAIN op[p].val.f \ DOMAIN D[k].f # {}

\* ----------------------------------------------------------------- C13

\* C13: delete. delete(key) on a document without the key returns without
\* error and leaves the document equal to the one it read; on a document
\* with the key it removes that key and nothing else.
DeleteSemantics ==
  \A p \in Procs :
    AtEndOf(p, "delete") =>
      LET D == ParseDoc(before[p].bytes)
          k == op[p].key
      IN /\ err[p] = "ok"
         /\ ParseOk(docFile.bytes)
         /\ LET E == ParseDoc(docFile.bytes)
            IN /\ DOMAIN E = DOMAIN D \ {k}
               /\ \A x \in DOMAIN E : E[x] = D[x]
         /\ k \notin DOMAIN D => docFile = before[p]

\* A delete of an absent key has ended on a document that has another key.
DeleteSemanticsWitness ==
  \E p \in Procs :
    /\ AtEndOf(p, "delete") /\ err[p] = "ok"
    /\ op[p].key \notin DOMAIN ParseDoc(before[p].bytes)
    /\ DOMAIN ParseDoc(before[p].bytes) # {}

\* ----------------------------------------------------------------- C14

\* C14: unlocked get is whole-but-possibly-stale. In a run that started
\* from no file or from a well-formed one, every get finds a complete
\* document under the path and returns the value of its key in that
\* document, whoever holds the lock, and leaves the lock as it is.
GetReadsWholeDocument ==
  [][\A p \in Procs :
       (InitialSound /\ Get(p)) =>
         /\ docFile.exists => ParseOk(docFile.bytes)
         /\ err'[p] = "ok"
         /\ \E o \in Head(prog[p]) :
              /\ o.type = "get"
              /\ ret'[p] = IF docFile.exists /\ o.key \in DOMAIN ParseDoc(docFile.bytes)
                           THEN ParseDoc(docFile.bytes)[o.key] ELSE NoneVal
         /\ lockHolders' = lockHolders /\ lockFd' = lockFd]_vars

\* ----------------------------------------------------------------- C16

\* The document file exists and does not hold a mapping.
Corrupt(file) == file.exists /\ ~ParseOk(file.bytes)

\* C16: a corrupt document is surfaced, never repaired. A get, and a set,
\* update, delete or increment inside the lock, that finds a document file
\* that does not parse as a mapping ends with an error, gives the caller no
\* value, prepares no document to write and leaves the document file and
\* the temp file as they are; a document that was corrupt from the start
\* stays as it was.
CorruptSurfaced ==
  /\ [](Corrupt(initial) => (docFile = initial /\ ~tmpFile.exists))
  /\ [][\A p \in Procs :
          (Corrupt(docFile) /\ (Get(p) \/ ReadModify(p))) =>
             /\ err'[p] \in {"JSONDecodeError", "TypeError"}
             /\ pc'[p] \in {"idle", "exit"}
             /\ ret' = ret /\ data' = data
             /\ docFile' = docFile /\ tmpFile' = tmpFile]_vars

\* An increment has raised on a corrupt document and is about to release
\* the lock.
CorruptSurfacedWitness ==
  \E p \in Procs :
    /\ pc[p] = "exit" /\ op[p].type = "increment"
    /\ err[p] \in {"JSONDecodeError", "TypeError"}
    /\ Corrupt(docFile) /\ docFile = initial

\* ----------------------------------------------------------------- C17

\* No mutator is between the start of its write and the release of the lock.
NoMutatorWriting == \A q \in Procs : ~(InCritical(q) /\ pc[q] \in Writing \cup {"exit"})

\* C17: path identity, no cache. A get that starts when no mutator is
\* writing returns, for a key the completed mutators have set, the value
\* the last of them left, whichever process and instance made those calls.
GetAfterSet ==
  [][\A p \in Procs :
       (InitialSound /\ NoMutatorWriting /\ Get(p)) =>
          \A o \in Head(prog[p]) :
            (o.type = "get" /\ o.key \in DOMAIN absDoc) =>
               (err'[p] = "ok" /\ ret'[p] = absDoc[o.key])]_vars

\* ------------------------------------------- two stores on different paths

\* File names of one directory: a stem and a suffix ("" for none).
Stems == {"a", "b"}
Suffixes == {"", ".json", ".txt", ".tmp", ".lock"}
Paths == [stem : Stems, suffix : Suffixes]

\* pathlib's with_suffix: the last suffix is replaced, or the new one is
\* appended to a name that has none.
WithSuffix(path, sfx) == [path EXCEPT !.suffix = sfx]
\* Store._lock, line 108, and Store._write_all, line 94.
LockPath(path) == WithSuffix(path, ".lock")
TempPath(path) == WithSuffix(path, ".tmp")

Stores == {1, 2}

\* What a path names: nothing, or a file last created, truncated or written
\* by a store, of some length, holding a complete document or not.
NoEntry == [exists |-> FALSE, by |-> 0, len |-> 0, whole |-> FALSE]
Content(i, n, w) == [exists |-> TRUE, by |-> i, len |-> n, whole |-> w]
\* The length of the document a call writes: {} or a document with a key.
DocLen(c) == IF c = "construct" THEN Len(Ser(EmptyDoc)) ELSE Len(Ser(EmptyDoc)) + 1

NoHandle == [open |-> FALSE, linked |-> FALSE, path |-> [stem |-> "", suffix |-> ""]]
HandleAt(path) == [open |-> TRUE, linked |-> TRUE, path |-> path]

\* Two stores on distinct paths; the document of each exists already or
\* does not.
InitIso ==
  /\ StoreInit(NoFile, [p \in Procs |-> <<>>], 0)
  /\ QueryOff
  /\ \E sp \in [Stores -> Paths], E \in SUBSET Stores :
       /\ \A i, j \in Stores : i # j => sp[i] # sp[j]
       /\ storagePath = sp
       /\ files = [x \in Paths |->
                     IF \E i \in E : sp[i] = x
                     THEN Content(CHOOSE i \in E : sp[i] = x, DocLen("construct"), TRUE)
                     ELSE NoEntry]
  /\ handle = [i \in Stores |-> NoHandle]
  /\ flocked = {}
  /\ step = [i \in Stores |-> "new"]
  /\ call = [i \in Stores |-> "none"]
  /\ failure = [i \in Stores |-> "ok"]

\* Store.__init__
IsoConstruct(i) ==
  /\ step[i] = "new"
  /\ IF files[storagePath[i]].exists
     THEN step' = [step EXCEPT ![i] = "idle"] /\ call' = call
     ELSE step' = [step EXCEPT ![i] = "w_open"] /\ call' = [call EXCEPT ![i] = "construct"]
  /\ UNCHANGED <<storagePath, files, handle, flocked, failure, storeVars, queryVars>>

\* set up to _FileLock.__enter__ line 121: open(lock_path, 'w') creates the
\* file under the lock path or truncates the one that is there.
IsoEnter(i) ==
  /\ step[i] = "idle"
  /\ files' = [files EXCEPT ![LockPath(storagePath[i])] = Content(i, 0, FALSE)]
  /\ step' = [step EXCEPT ![i] = "lock_wait"]
  /\ UNCHANGED <<storagePath, handle, flocked, call, failure, storeVars, queryVars>>

\* Store j holds a flock on the file store i wants to lock.
HoldsLockOf(j, i) ==
  j # i /\ j \in flocked /\ LockPath(storagePath[j]) = LockPath(storagePath[i])

\* _FileLock.__enter__ line 122
IsoAcquire(i) ==
  /\ step[i] = "lock_wait"
  /\ \A j \in Stores : ~HoldsLockOf(j, i)
  /\ flocked' = flocked \cup {i}
  /\ step' = [step EXCEPT ![i] = "read"]
  /\ UNCHANGED <<storagePath, files, handle, call, failure, storeVars, queryVars>>

\* _read_all inside the lock, and data[key] = value
IsoRead(i) ==
  /\ step[i] = "read"
  /\ LET f == files[storagePath[i]]
     IN IF f.exists /\ ~f.whole
        THEN /\ failure' = [failure EXCEPT ![i] = "JSONDecodeError"]
             /\ step' = [step EXCEPT ![i] = "exit"]
             /\ call' = call
        ELSE /\ step' = [step EXCEPT ![i] = "w_open"]
             /\ call' = [call EXCEPT ![i] = "set"]
             /\ failure' = failure
  /\ UNCHANGED <<storagePath, files, handle, flocked, storeVars, queryVars>>

\* _write_all line 96
IsoWriteOpen(i) ==
  /\ step[i] = "w_open"
  /\ files' = [files EXCEPT ![TempPath(storagePath[i])] = Content(i, 0, FALSE)]
  /\ handle' = [handle EXCEPT ![i] = HandleAt(TempPath(storagePath[i]))]
  /\ step' = [step EXCEPT ![i] = "w_flush"]
  /\ UNCHANGED <<storagePath, flocked, call, failure, storeVars, queryVars>>

\* _write_all line 97 and the close of the handle: the document is written
\* at offset 0 of the inode, wherever that is linked now.
IsoWriteFlush(i) ==
  /\ step[i] = "w_flush"
  /\ files' = IF handle[i].linked
              THEN [files EXCEPT ![handle[i].path] =
                      IF DocLen(call[i]) >= @.len THEN Content(i, DocLen(call[i]), TRUE)
                      ELSE Content(i, @.len, FALSE)]
              ELSE files
  /\ handle' = [handle EXCEPT ![i] = NoHandle]
  /\ step' = [step EXCEPT ![i] = "w_replace"]
  /\ UNCHANGED <<storagePath, flocked, call, failure, storeVars, queryVars>>

\* Where an open handle's inode is linked after rename(src, dst).
IsoAfterRename(h, src, dst) ==
  IF h.open /\ h.linked /\ h.path = src THEN HandleAt(dst)
  ELSE IF h.open /\ h.linked /\ h.path = dst THEN [h EXCEPT !.linked = FALSE]
  ELSE h

\* _write_all line 98: rename onto the same path changes nothing, rename of
\* a missing temp file raises.
IsoWriteReplace(i) ==
  /\ step[i] = "w_replace"
  /\ LET src == TempPath(storagePath[i])
         dst == storagePath[i]
         after == IF call[i] = "construct" THEN "idle" ELSE "exit"
     IN IF ~files[src].exists
        THEN /\ failure' = [failure EXCEPT ![i] = "FileNotFoundError"]
             /\ step' = [step EXCEPT ![i] = IF call[i] = "construct" THEN "failed" ELSE "exit"]
             /\ UNCHANGED <<files, handle, storeVars, queryVars>>
        ELSE /\ files' = IF src = dst THEN files
                         ELSE [files EXCEPT ![dst] = files[src], ![src] = NoEntry]
             /\ handle' = IF src = dst THEN handle
                          ELSE [j \in Stores |-> IsoAfterRename(handle[j], src, dst)]
             /\ step' = [step EXCEPT ![i] = after]
             /\ failure' = failure
  /\ UNCHANGED <<storagePath, flocked, call, storeVars, queryVars>>

\* _FileLock.__exit__
IsoExit(i) ==
  /\ step[i] = "exit"
  /\ flocked' = flocked \ {i}
  /\ step' = [step EXCEPT ![i] = "done"]
  /\ UNCHANGED <<storagePath, files, handle, call, failure, storeVars, queryVars>>

NextIso ==
  \E i \in Stores :
    \/ IsoConstruct(i)
    \/ IsoEnter(i)
    \/ IsoAcquire(i)
    \/ IsoRead(i)
    \/ IsoWriteOpen(i)
    \/ IsoWriteFlush(i)
    \/ IsoWriteReplace(i)
    \/ IsoExit(i)

SpecIso == InitIso /\ [][NextIso]_vars

\* ----------------------------------------------------------------- C15

\* C15: per-path isolation. Of two stores on different document paths,
\* neither ever waits for a lock the other holds, and the file under the
\* document path of one is never one the other created, truncated, wrote
\* or renamed there.
PathIsolation ==
  \A i, j \in Stores :
    i # j =>
      /\ ~(step[i] = "lock_wait" /\ HoldsLockOf(j, i))
      /\ files[storagePath[j]].exists => files[storagePath[j]].by = j

\* ------------------------------------------------------------ execute_query

\* Characters of a log file: two letters, line feed and carriage return.
NL == "\n"
CR == "\r"
Chars == {"E", "I", NL, CR}
RECURSIVE TextsOf(_)
TextsOf(n) ==
  IF n = 0 THEN {<<>>} ELSE {<<>>} \cup {<<c>> \o t : c \in Chars, t \in TextsOf(n - 1)}
Texts == TextsOf(MaxText)

\* Patterns without metacharacters, for which re.search is a search for a
\* substring; the empty pattern matches everywhere.
QPatterns == {<<>>, <<"E">>, <<"I">>, <<"E", "I">>, <<NL>>, <<"E", NL>>}

Missing == [exists |-> FALSE, text |-> <<>>]
TextFile(t) == [exists |-> TRUE, text |-> t]

\* open(filename, 'r'): in text mode "\r\n" and "\r" are read as "\n".
RECURSIVE Translate(_)
Translate(t) ==
  IF t = <<>> THEN <<>>
  ELSE IF t[1] # CR THEN <<t[1]>> \o Translate(Tail(t))
  ELSE IF Len(t) >= 2 /\ t[2] = NL THEN <<NL>> \o Translate(Tail(Tail(t)))
  ELSE <<NL>> \o Translate(Tail(t))

\* for line in f: the next line is the text up to and including the first
\* line feed, or all the text when it has none.
LineLen(t) ==
  IF \E i \in 1..Len(t) : t[i] = NL
  THEN CHOOSE i \in 1..Len(t) : t[i] = NL /\ \A j \in 1..(i - 1) : t[j] # NL
  ELSE Len(t)

\* re.search(pattern, line) for a pattern without metacharacters.
Search(pattern, line) ==
  \E i \in 1..(Len(line) + 1) :
    /\ i + Len(pattern) - 1 <= Len(line)
    /\ SubSeq(line, i, i + Len(pattern) - 1) = pattern

\* Mutant: the line is appended as it was read.
RStripNothing(line) == line

\* line.rstrip('\n')
RECURSIVE RStrip(_)
RStrip(line) ==
  IF line # <<>> /\ line[Len(line)] = NL THEN RStrip(SubSeq(line, 1, Len(line) - 1)) ELSE line

\* A call execute_query(pattern, filename) on a missing file or on a file
\* holding some text.
InitQuery ==
  /\ StoreInit(NoFile, [p \in Procs |-> <<>>], 0)
  /\ IsoOff
  /\ qfile \in {Missing} \cup {TextFile(t) : t \in Texts}
  /\ qpattern \in QPatterns
  /\ qrest = <<>>
  /\ qresults = <<>>
  /\ qpc = "open"

\* Lines 19 to 21, and 25 to 28 when open raises FileNotFoundError.
QueryOpen ==
  /\ qpc = "open"
  /\ IF qfile.exists
     THEN qrest' = Translate(qfile.text) /\ qpc' = "loop"
     ELSE qrest' = qrest /\ qpc' = "done"
  /\ UNCHANGED <<qfile, qpattern, qresults, storeVars, isoVars>>

\* Lines 22 to 24: one turn of the loop.
QueryLine ==
  /\ qpc = "loop"
  /\ qrest # <<>>
  /\ LET line == SubSeq(qrest, 1, LineLen(qrest))
     IN /\ qresults' = IF Search(qpattern, line) THEN Append(qresults, RStrip(line))
                       ELSE qresults
        /\ qrest' = SubSeq(qrest, LineLen(qrest) + 1, Len(qrest))
  /\ UNCHANGED <<qfile, qpattern, qpc, storeVars, isoVars>>

\* Line 28, after the last line.
QueryReturn ==
  /\ qpc = "loop"
  /\ qrest = <<>>
  /\ qpc' = "done"
  /\ UNCHANGED <<qfile, qpattern, qrest, qresults, storeVars, isoVars>>

NextQuery == QueryOpen \/ QueryLine \/ QueryReturn

SpecQuery == InitQuery /\ [][NextQuery]_vars

\* ----------------------------------------------------------------- C18

\* The lines of a text: each ends at a line feed, but for the last one when
\* the text does not end in a line feed.
RECURSIVE LinesOf(_)
LinesOf(t) ==
  IF t = <<>> THEN <<>>
  ELSE <<SubSeq(t, 1, LineLen(t))>> \o LinesOf(SubSeq(t, LineLen(t) + 1, Len(t)))

\* A line without the line feed that ends it.
WithoutNewline(line) ==
  IF line # <<>> /\ line[Len(line)] = NL THEN SubSeq(line, 1, Len(line) - 1) ELSE line

\* C18: execute_query returns exactly the lines of the file that match the
\* pattern, in file order and without their trailing newline, and the empty
\* list when no line matches and when the file does not exist.
QueryReturnsMatches ==
  qpc = "done" =>
    IF ~qfile.exists THEN qresults = <<>>
    ELSE LET hits == SelectSeq(LinesOf(Translate(qfile.text)),
                               LAMBDA l : Search(qpattern, l))
         IN /\ Len(qresults) = Len(hits)
            /\ \A i \in 1..Len(hits) : qresults[i] = WithoutNewline(hits[i])

\* The query has returned two lines of a file that has a line in between
\* that does not match.
QueryReturnsMatchesWitness ==
  /\ qpc = "done" /\ qfile.exists
  /\ Len(qresults) = 2
  /\ Len(LinesOf(Translate(qfile.text))) = 3
  /\ ~Search(qpattern, LinesOf(Translate(qfile.text))[2])

\* ------------------------------------------- abnormal ends of an acquisition

\* The process holding the lock terminates abnormally (it is killed): the
\* kernel closes its descriptors, which frees the flock; what it had written
\* to the temp handle and not yet flushed is lost; the files stay as they
\* are. The record keeps the document file the call read (the one under
\* the path now, when it had not read yet) and the one it was to leave.
Crash(p) ==
  /\ p \in lockHolders
  /\ pc' = [pc EXCEPT ![p] = "dead"]
  /\ lockHolders' = lockHolders \ {p}
  /\ lockFd' = [lockFd EXCEPT ![p] = FALSE]
  /\ fdAt' = [fdAt EXCEPT ![p] = "none"]
  /\ LET pre == IF pc[p] = "read" THEN docFile ELSE before[p]
         wrote == pc[p] \in Writing \/ (pc[p] = "exit" /\ err[p] = "ok")
     IN crash' = [fresh |-> TRUE, pre |-> pre,
                  post |-> IF wrote THEN File(Ser(data[p])) ELSE pre]
  /\ UNCHANGED <<docFile, tmpFile, op, prog, budget, data, ret, err, absDoc, initial, before,
                 isoVars, queryVars>>

\* fcntl.flock in __enter__, line 122, raises (a signal handler raised
\* while the call was blocked): the exception leaves __enter__, the with
\* statement does not call __exit__, and nothing closes self.lock_file.
Interrupt(p) ==
  /\ pc[p] = "lock_wait"
  /\ pc' = [pc EXCEPT ![p] = "idle"]
  /\ err' = [err EXCEPT ![p] = "InterruptedError"]
  /\ op' = [op EXCEPT ![p] = NoOp]
  /\ UNCHANGED <<docFile, tmpFile, fdAt, lockHolders, lockFd, prog, budget, data, ret, absDoc,
                 initial, before, crash, isoVars, queryVars>>

\* The interpreter collects the _FileLock object of an interrupted
\* acquisition at some later time, which closes its file.
Finalize(p) ==
  /\ pc[p] \in Resting
  /\ lockFd[p]
  /\ lockFd' = [lockFd EXCEPT ![p] = FALSE]
  /\ UNCHANGED <<docFile, tmpFile, fdAt, lockHolders, pc, op, prog, budget, data, ret, err,
                 absDoc, initial, before, crash, isoVars, queryVars>>

NextFault ==
  \/ Next
  \/ \E p \in Procs :
       \/ Crash(p)
       \/ Interrupt(p)
       \/ Finalize(p)

\* The calls of a process that may be killed or interrupted.
FaultMenu(p) ==
  {ConstructOp, GetOp(MenuKey), SetOp(MenuKey, Dict(MapSet(EmptyMap, WorkerField(p), 1)))}
FaultFiles == {NoFile, File(Ser(EmptyDoc)), File(Ser(DocSet(EmptyDoc, MenuKey, StrVal)))}
InitFault ==
  \E file \in FaultFiles :
    InitWith(file, [p \in Procs |-> <<{ConstructOp}>> \o [i \in 1..(MaxOps + 1) |-> FaultMenu(p)]],
             MaxOps + 1)
SpecFault == InitFault /\ [][NextFault]_vars

\* ----------------------------------------------------------------- C19

\* C19: crash of the lock holder. When the holder of the lock has
\* terminated abnormally the lock is free, and when the crashed call had a
\* complete document before it, the document file the next mutator reads
\* inside the lock is complete and is that document or the one the crashed
\* call was to leave.
CrashLeavesWholeDocument ==
  /\ [](\A p \in Procs : pc[p] = "dead" => p \notin lockHolders)
  /\ [][\A q \in Procs :
          (crash.fresh /\ crash.pre.exists /\ ParseOk(crash.pre.bytes) /\ ReadModify(q)) =>
             /\ docFile \in {crash.pre, crash.post}
             /\ ParseOk(docFile.bytes)]_vars

\* ----------------------------------------------------------------- C20

\* C20: no leaked lock handle. A process that is in no acquisition and in
\* no critical section holds no open handle on the lock file.
NoLeakedHandle == \A p \in Procs : pc[p] \in Resting => ~lockFd[p]

\* ----------------------------------------------------------------- C21

\* The calls of a process: a read and the four mutators; increment raises
\* when it finds a string at its key.
LiveMenu(p) ==
  { ConstructOp, GetOp(MenuKey),
    SetOp(MenuKey, StrVal),
    UpdateOp(MenuKey, MapSet(EmptyMap, CounterField, 1)),
    DeleteOp(MenuKey),
    IncrementOp(MenuKey, CounterField, 1) }
LiveFiles == {NoFile, File(Ser(DocSet(EmptyDoc, MenuKey, StrVal)))}
InitLive ==
  \E file \in LiveFiles :
    InitWith(file, [p \in Procs |-> <<{ConstructOp}>> \o [i \in 1..MaxOps |-> LiveMenu(p)]],
             MaxOps)

\* A step of a mutator inside the with block.
CriticalStep(p) ==
  InCritical(p) /\ (ReadModify(p) \/ WriteOpen(p) \/ WriteFlush(p) \/ WriteReplace(p) \/ Exit(p))

\* The lock is granted fairly, and no process stalls inside the with block.
\* Nothing obliges a caller to start a call or a constructor to go on.
Fairness == \A p \in Procs : SF_vars(Acquire(p)) /\ WF_vars(CriticalStep(p))

SpecLive == InitLive /\ [][Next]_vars /\ Fairness

\* C21: termination and deadlock freedom. A process waiting for the lock
\* does not hold it; whenever a mutator is in progress, some mutator can
\* take a step; and every set, update, delete and increment that has
\* started returns to its caller.
Termination ==
  /\ [](\A p \in Procs : pc[p] = "lock_wait" => p \notin lockHolders)
  /\ []((\E p \in Procs : InMutator(p)) =>
          \E q \in Procs : ENABLED (Acquire(q) \/ CriticalStep(q)))
  /\ \A p \in Procs : InMutator(p) ~> (pc[p] = "idle")

\* One process waits for the lock while another one, which will raise,
\* holds it.
TerminationWitness ==
  \E p, q \in Procs :
    /\ pc[p] = "lock_wait"
    /\ q \in lockHolders /\ pc[q] = "exit" /\ err[q] # "ok"

\* ----------------------------------------------------------------- C22

\* C22: single-key frame. A set, update, delete or increment on a key that
\* returns leaves every other key as it was in the document the call read:
\* present with the same value, or absent.
SingleKeyFrame ==
  \A p \in Procs :
    (\E type \in Mutators : AtEndOf(p, type)) /\ err[p] = "ok" =>
      /\ ParseOk(docFile.bytes)
      /\ LET D == ParseDoc(before[p].bytes)
             E == ParseDoc(docFile.bytes)
         IN \A k \in Keys \ {op[p].key} :
              /\ k \in DOMAIN E <=> k \in DOMAIN D
              /\ k \in DOMAIN D => E[k] = D[k]

\* A mutator has changed the value at its key in a document that holds
\* another key as well.
SingleKeyFrameWitness ==
  \E p \in Procs :
    /\ \E type \in Mutators : AtEndOf(p, type)
    /\ err[p] = "ok"
    /\ LET D == ParseDoc(before[p].bytes)
           E == ParseDoc(docFile.bytes)
           k == op[p].key
       IN /\ DOMAIN D \ {k} # {}
          /\ k \in DOMAIN D
          /\ k \notin DOMAIN E \/ E[k] # D[k]

\* ----------------------------------------------------------------- C23

\* Each process constructs its Store, calls increment("counter", "value",
\* amount) MaxOps times with the amount of the run, and then reads the record.
Amounts == {1, 2}
RECURSIVE IncrementsBy(_, _)
IncrementsBy(a, n) ==
  IF n = 0 THEN <<>> ELSE <<{IncrementOp("counter", CounterField, a)}>> \o IncrementsBy(a, n - 1)
InitResult ==
  \E D \in IncrementInitDocs, a \in Amounts :
    InitWith(File(Ser(D)),
             [p \in Procs |-> <<{ConstructOp}>> \o IncrementsBy(a, MaxOps) \o <<{GetOp("counter")}>>],
             (MaxOps + 1) * NumProcs)
SpecResult == InitResult /\ [][Next]_vars

\* Process p has the value its increment returns.
HasReturned(p) == pc[p] = "exit" /\ op[p].type = "increment" /\ err[p] = "ok"

\* The number of increment calls of process p that have returned: those it
\* has started, less the one still on its way.
ReturnedCalls(p) ==
  LET waiting == Cardinality({i \in 1..Len(prog[p]) : \E o \in prog[p][i] : o.type = "increment"})
      running == IF op[p].type = "increment" /\ ~HasReturned(p) THEN 1 ELSE 0
  IN MaxOps - waiting - running

RECURSIVE SumReturned(_)
SumReturned(P) ==
  IF P = {} THEN 0 ELSE LET p == CHOOSE q \in P : TRUE IN ReturnedCalls(p) + SumReturned(P \ {p})

\* The value of the field in a document, an absent key or field being 0.
FieldOf(D, k, fld) == IF k \in DOMAIN D /\ IsDict(D[k]) THEN MapGet(D[k].f, fld, 0) ELSE 0

\* C23: increment result. An increment that returns has left a mapping at
\* its key, also when the key was absent, and returns the value of the
\* field it has just written, which is the value the field had in the
\* document it read (0 when absent) plus the amount; and the value returned
\* by the n-th increment call to return, over all the processes, is n times
\* the amount: with amount 1 on a field starting at 0 the returned values
\* of M calls are 1..M, each returned once.
IncrementResult ==
  \A p \in Procs :
    HasReturned(p) =>
      /\ before[p].exists /\ ParseOk(before[p].bytes)
      /\ ReadAll(docFile).err = "ok"
      /\ IsDict(GetValue(docFile, op[p].key))
      /\ ret[p] = Num(FieldOf(ParseDoc(before[p].bytes), op[p].key, op[p].field) + op[p].amount)
      /\ ret[p] = Num(FieldOf(ParseDoc(docFile.bytes), op[p].key, op[p].field))
      /\ ret[p] = Num(op[p].amount * SumReturned(Procs))

\* On a document without the key, the last of the NumProcs * MaxOps
\* increment calls with amount 1 returns NumProcs * MaxOps, while another
\* process holds the value returned by its own last call.
IncrementResultWitness ==
  \E p \in Procs :
    /\ HasReturned(p) /\ op[p].amount = 1
    /\ "counter" \notin DOMAIN ParseDoc(initial.bytes)
    /\ ret[p] = Num(NumProcs * MaxOps)
    /\ \E q \in Procs \ {p} : pc[q] = "idle" /\ ret[q] = Num(NumProcs * MaxOps - 1)

====
